---- MODULE Spec2Model ----
(***************************************************************************)
(* A model of the AbleSet companion module (src/src/main.ts): the session  *)
(* life cycle (init, destroy, configUpdated), the heartbeat watchdog, the  *)
(* inbound OSC handlers that mirror remote state, the gathering debounce   *)
(* that batches checkFeedbacks, and the feedback predicates.               *)
(*                                                                         *)
(* Time is in milliseconds.  A timer is the time left until it is due; a   *)
(* due timer (0 left) blocks the passage of time until its callback has    *)
(* run, while other events of the same instant may still run before it.    *)
(***************************************************************************)
EXTENDS Integers, Sequences, FiniteSets, TLC

\* ------------------------------------------------------------ bounds

\* Instants per gathering window at which the model lets events happen.
TicksPerWindow == 2
\* Instants per watchdog period in the session specification.
TicksPerHeartbeat == 2
\* debouncedCheckFeedbacks calls the model follows within one window: in the
\* specifications of the debounce and of batching, and in the others.
MaxBurst == 4
SessionBurst == 2
\* Sessions (calls of init) the model follows.
MaxSessions == 2
\* Distinct paths the peer updates in a run of the listeners' specification.
MaxPaths == 3
\* Messages in the log of a client while the user triggers actions.
MaxSent == 3

\* ------------------------------------------------- program constants

HeartbeatDelay == 2500
GatherDelay == 50
PRESET_COUNT == 32

\* ---------------------------------------------------------- helpers

Min(S) == CHOOSE x \in S : \A y \in S : x <= y

Range(f) == {f[i] : i \in DOMAIN f}

RECURSIVE SeqNoDup(_)
SeqNoDup(s) ==
    IF s = <<>> THEN TRUE
    ELSE /\ \A i \in 2..Len(s) : s[i] # s[1]
         /\ SeqNoDup(Tail(s))

\* The place of the first occurrence of k in s (0 when absent).
FirstIndex(s, k) ==
    IF k \in Range(s) THEN Min({i \in DOMAIN s : s[i] = k}) ELSE 0

\* ------------------------------------------------- JavaScript values
\* An OSC argument or a variable's value: a number, a boolean, a string,
\* undefined (an absent argument, a variable never set) or NaN.

Num(n) == [t |-> "number", n |-> n, b |-> FALSE, s |-> ""]
Bool(b) == [t |-> "boolean", n |-> 0, b |-> b, s |-> ""]
Str(s) == [t |-> "string", n |-> 0, b |-> FALSE, s |-> s]
Undefined == [t |-> "undefined", n |-> 0, b |-> FALSE, s |-> ""]
NaN == [t |-> "NaN", n |-> 0, b |-> FALSE, s |-> ""]

\* The integers whose decimal spelling the model recognises in a string.
Digits == 0..9 \cup {39052}

\* Number(x)
Number(x) ==
    CASE x.t = "number" -> x
      [] x.t = "boolean" -> Num(IF x.b THEN 1 ELSE 0)
      [] x.t = "string" ->
            IF x.s = "" THEN Num(0)
            ELSE IF \E d \in Digits : ToString(d) = x.s
                 THEN Num(CHOOSE d \in Digits : ToString(d) = x.s)
                 ELSE NaN
      [] OTHER -> NaN

\* Boolean(x)
Boolean(x) ==
    CASE x.t = "number" -> x.n # 0
      [] x.t = "boolean" -> x.b
      [] x.t = "string" -> x.s # ""
      [] OTHER -> FALSE

\* String(x), also a template literal's ${x}
String(x) ==
    CASE x.t = "number" -> ToString(x.n)
      [] x.t = "boolean" -> (IF x.b THEN "true" ELSE "false")
      [] x.t = "string" -> x.s
      [] x.t = "undefined" -> "undefined"
      [] OTHER -> "NaN"

\* x ?? d
Coalesce(x, d) == IF x.t = "undefined" THEN d ELSE x

\* a < b, a <= b, a === b on the results of Number(): false when either is NaN.
NumLt(a, b) == a.t = "number" /\ b.t = "number" /\ a.n < b.n
NumLe(a, b) == a.t = "number" /\ b.t = "number" /\ a.n <= b.n
NumEq(a, b) == a.t = "number" /\ b.t = "number" /\ a.n = b.n

\* The i-th argument of a message ([, a1, a2] = message): undefined when absent.
Arg(args, i) == IF i \in DOMAIN args THEN args[i] ELSE Undefined

\* makeRange(number): [0, .., number - 1]
makeRange(number) == [i \in 1..number |-> i - 1]

\* ------------------------------------------------------- enums.ts

IsPlaying == "isPlaying"
IsInLoop == "isInLoop"
IsInActiveLoop == "isInActiveLoop"
IsCurrentSong == "isCurrentSong"
IsCurrentSection == "isCurrentSection"
IsQueuedSong == "isQueuedSong"
IsQueuedSection == "isQueuedSection"
CanJumpToNextSong == "canJumpToNextSong"
CanJumpToPreviousSong == "canJumpToPreviousSong"
CanJumpToNextSection == "canJumpToNextSection"
CanJumpToPreviousSection == "canJumpToPreviousSection"

\* The feedbacks updateFeedbacks defines.
Feedbacks ==
    {IsPlaying, IsInLoop, IsInActiveLoop, IsCurrentSong, IsCurrentSection,
     IsQueuedSong, IsQueuedSection, CanJumpToNextSong, CanJumpToPreviousSong,
     CanJumpToNextSection, CanJumpToPreviousSection}

\* ------------------------------------------- the inbound OSC handlers

\* The paths initOscListeners registers a handler for.
ListenerPaths ==
    {"/global/beatsPosition", "/global/humanPosition", "/global/tempo",
     "/global/isPlaying", "/global/timeSignature", "/setlist/name",
     "/setlist/songs", "/setlist/sections", "/setlist/activeSongName",
     "/setlist/activeSongIndex", "/setlist/activeSectionName",
     "/setlist/activeSectionIndex", "/setlist/queuedName",
     "/setlist/queuedIndex", "/setlist/nextSongName",
     "/setlist/nextSongIndex", "/setlist/loopEnabled", "/setlist/loopStart",
     "/setlist/loopEnd", "/setlist/isCountingIn",
     "/playaudio12/isConnected", "/playaudio12/scene", "/settings/autoplay",
     "/settings/safeMode", "/settings/alwaysStopOnSongEnd",
     "/settings/autoJumpToNextSong", "/settings/autoLoopCurrentSection",
     "/settings/countIn", "/settings/countInSoloClick",
     "/settings/countInDuration", "/settings/jumpMode"}

\* The path of the dedicated heartbeat, registered by init.
HeartbeatPath == "/heartbeat"

\* Every path with a registered handler.
RecognizedPaths == ListenerPaths \cup {HeartbeatPath}

\* `song${i + 1}Name` and `section${i + 1}Name` for each i of
\* makeRange(PRESET_COUNT), and the i of each name.
songName == [i \in Range(makeRange(PRESET_COUNT)) |-> "song" \o ToString(i + 1) \o "Name"]
sectionName ==
    [i \in Range(makeRange(PRESET_COUNT)) |-> "section" \o ToString(i + 1) \o "Name"]
songIndex == [v \in Range(songName) |-> CHOOSE i \in DOMAIN songName : songName[i] = v]
sectionIndex ==
    [v \in Range(sectionName) |-> CHOOSE i \in DOMAIN sectionName : sectionName[i] = v]

\* The variables the handlers set other than song<i>Name and section<i>Name.
ScalarVariableIds ==
    {"beatsPosition", "humanPosition", "tempo", "isPlaying",
     "timeSignature", "setlistName", "activeSongName", "activeSongIndex",
     "activeSectionName", "activeSectionIndex", "queuedSongName",
     "queuedSectionName", "queuedSongIndex", "queuedSectionIndex",
     "nextSongName", "nextSongIndex", "loopEnabled", "loopStart", "loopEnd",
     "isCountingIn", "playAudio12Connected", "playAudio12Scene", "autoplay",
     "safeMode", "alwaysStopOnSongEnd", "autoJumpToNextSong",
     "autoLoopCurrentSection", "countIn", "countInSoloClick",
     "countInDuration", "jumpMode"}

VariableIds == ScalarVariableIds \cup Range(songName) \cup Range(sectionName)

\* The object a path's handler passes to setVariableValues, given the
\* message's arguments (the message without its address).
VariableValues(path, args) ==
    CASE path = "/global/humanPosition" ->
            [v \in {"humanPosition"} |->
                Str(String(Coalesce(Arg(args, 1), Num(0))) \o "."
                    \o String(Coalesce(Arg(args, 2), Num(0))))]
      [] path = "/global/timeSignature" ->
            [v \in {"timeSignature"} |->
                Str(String(Arg(args, 1)) \o "/" \o String(Arg(args, 2)))]
      [] path = "/setlist/songs" ->
            [v \in Range(songName) |->
                Str(String(Coalesce(Arg(args, songIndex[v] + 1), Str(""))))]
      [] path = "/setlist/sections" ->
            [v \in Range(sectionName) |->
                Str(String(Coalesce(Arg(args, sectionIndex[v] + 1), Str(""))))]
      [] path = "/setlist/queuedName" ->
            [v \in {"queuedSongName", "queuedSectionName"} |->
                IF v = "queuedSongName" THEN Str(String(Arg(args, 1)))
                ELSE Str(String(Arg(args, 2)))]
      [] path = "/setlist/queuedIndex" ->
            [v \in {"queuedSongIndex", "queuedSectionIndex"} |->
                IF v = "queuedSongIndex" THEN Number(Arg(args, 1))
                ELSE Number(Arg(args, 2))]
      [] path = "/global/beatsPosition" ->
            [v \in {"beatsPosition"} |-> Number(Arg(args, 1))]
      [] path = "/global/tempo" ->
            [v \in {"tempo"} |-> Number(Arg(args, 1))]
      [] path = "/global/isPlaying" ->
            [v \in {"isPlaying"} |-> Bool(Boolean(Arg(args, 1)))]
      [] path = "/setlist/name" ->
            [v \in {"setlistName"} |-> Str(String(Arg(args, 1)))]
      [] path = "/setlist/activeSongName" ->
            [v \in {"activeSongName"} |-> Str(String(Arg(args, 1)))]
      [] path = "/setlist/activeSongIndex" ->
            [v \in {"activeSongIndex"} |-> Number(Arg(args, 1))]
      [] path = "/setlist/activeSectionName" ->
            [v \in {"activeSectionName"} |-> Str(String(Arg(args, 1)))]
      [] path = "/setlist/activeSectionIndex" ->
            [v \in {"activeSectionIndex"} |-> Number(Arg(args, 1))]
      [] path = "/setlist/nextSongName" ->
            [v \in {"nextSongName"} |-> Str(String(Arg(args, 1)))]
      [] path = "/setlist/nextSongIndex" ->
            [v \in {"nextSongIndex"} |-> Number(Arg(args, 1))]
      [] path = "/setlist/loopEnabled" ->
            [v \in {"loopEnabled"} |-> Bool(Boolean(Arg(args, 1)))]
      [] path = "/setlist/loopStart" ->
            [v \in {"loopStart"} |-> Number(Arg(args, 1))]
      [] path = "/setlist/loopEnd" ->
            [v \in {"loopEnd"} |-> Number(Arg(args, 1))]
      [] path = "/setlist/isCountingIn" ->
            [v \in {"isCountingIn"} |-> Bool(Boolean(Arg(args, 1)))]
      [] path = "/playaudio12/isConnected" ->
            [v \in {"playAudio12Connected"} |-> Bool(Boolean(Arg(args, 1)))]
      [] path = "/playaudio12/scene" ->
            [v \in {"playAudio12Scene"} |-> Number(Arg(args, 1))]
      [] path = "/settings/autoplay" ->
            [v \in {"autoplay"} |-> Bool(Boolean(Arg(args, 1)))]
      [] path = "/settings/safeMode" ->
            [v \in {"safeMode"} |-> Bool(Boolean(Arg(args, 1)))]
      [] path = "/settings/alwaysStopOnSongEnd" ->
            [v \in {"alwaysStopOnSongEnd"} |-> Bool(Boolean(Arg(args, 1)))]
      [] path = "/settings/autoJumpToNextSong" ->
            [v \in {"autoJumpToNextSong"} |-> Bool(Boolean(Arg(args, 1)))]
      [] path = "/settings/autoLoopCurrentSection" ->
            [v \in {"autoLoopCurrentSection"} |-> Bool(Boolean(Arg(args, 1)))]
      [] path = "/settings/countIn" ->
            [v \in {"countIn"} |-> Bool(Boolean(Arg(args, 1)))]
      [] path = "/settings/countInSoloClick" ->
            [v \in {"countInSoloClick"} |-> Bool(Boolean(Arg(args, 1)))]
      [] path = "/settings/countInDuration" ->
            [v \in {"countInDuration"} |-> Number(Arg(args, 1))]
      [] path = "/settings/jumpMode" ->
            [v \in {"jumpMode"} |-> Str(String(Arg(args, 1)))]
      [] OTHER -> [v \in {} |-> Undefined]

\* A variant in which the handlers of the lists of songs and sections do
\* not call debouncedCheckFeedbacks.
FeedbackKeysWithoutLists(path) ==
    CASE path \in {"/global/beatsPosition", "/setlist/loopEnabled",
                   "/setlist/loopStart", "/setlist/loopEnd"} ->
            <<IsInLoop, IsInActiveLoop>>
      [] path = "/global/isPlaying" -> <<IsPlaying>>
      [] path = "/setlist/activeSongIndex" ->
            <<IsCurrentSong, CanJumpToNextSong, CanJumpToPreviousSong>>
      [] path = "/setlist/activeSectionIndex" ->
            <<IsCurrentSection, CanJumpToNextSection, CanJumpToPreviousSection>>
      [] path = "/setlist/queuedIndex" -> <<IsQueuedSong, IsQueuedSection>>
      [] OTHER -> <<>>

\* A variant in which the position and loop handlers pass IsInLoop only.
FeedbackKeysInLoopOnly(path) ==
    CASE path \in {"/global/beatsPosition", "/setlist/loopEnabled",
                   "/setlist/loopStart", "/setlist/loopEnd"} ->
            <<IsInLoop>>
      [] path = "/global/isPlaying" -> <<IsPlaying>>
      [] OTHER -> <<>>

\* The keys a path's handler passes to debouncedCheckFeedbacks, in order
\* (none when the handler does not call it).
FeedbackKeys(path) ==
    CASE path \in {"/global/beatsPosition", "/setlist/loopEnabled",
                   "/setlist/loopStart", "/setlist/loopEnd"} ->
            <<IsInLoop, IsInActiveLoop>>
      [] path = "/global/isPlaying" -> <<IsPlaying>>
      [] path = "/setlist/songs" -> <<CanJumpToNextSong, CanJumpToPreviousSong>>
      [] path = "/setlist/sections" ->
            <<CanJumpToNextSection, CanJumpToPreviousSection>>
      [] path = "/setlist/activeSongIndex" ->
            <<IsCurrentSong, CanJumpToNextSong, CanJumpToPreviousSong>>
      [] path = "/setlist/activeSectionIndex" ->
            <<IsCurrentSection, CanJumpToNextSection, CanJumpToPreviousSection>>
      [] path = "/setlist/queuedIndex" -> <<IsQueuedSong, IsQueuedSection>>
      [] OTHER -> <<>>

\* The attributes the callback of feedback P reads: variables through
\* getVariableValue, and the fields this.songs and this.sections.
Reads(P) ==
    CASE P = IsPlaying -> {"isPlaying"}
      [] P = IsInLoop -> {"beatsPosition", "loopStart", "loopEnd"}
      [] P = IsInActiveLoop ->
            {"beatsPosition", "loopEnabled", "loopStart", "loopEnd"}
      [] P = IsCurrentSong -> {"activeSongIndex"}
      [] P = IsCurrentSection -> {"activeSectionIndex"}
      [] P = IsQueuedSong -> {"queuedSongIndex"}
      [] P = IsQueuedSection -> {"queuedSectionIndex"}
      [] P = CanJumpToNextSong -> {"activeSongIndex", "this.songs"}
      [] P = CanJumpToPreviousSong -> {"activeSongIndex"}
      [] P = CanJumpToNextSection -> {"activeSectionIndex", "this.sections"}
      [] P = CanJumpToPreviousSection -> {"activeSectionIndex"}
      [] OTHER -> {}

ReadAttributes == UNION {Reads(P) : P \in Feedbacks}

\* ------------------------------------------------------------ state

VARIABLES
    config,        \* this.config
    status,        \* the last updateStatus call: [kind, cause]
    oscServer,     \* this.oscServer: the session whose server it is, 0 for null
    oscClient,     \* this.oscClient: the session whose client it is, 0 for null
    songs,         \* this.songs
    sections,      \* this.sections
    store,         \* the variable values (setVariableValues / getVariableValue)
    sessions,      \* per call of init: its endpoints and its closure
    gatherArgs,    \* debouncedCheckFeedbacks: the keys gathered so far
    gatherTimers,  \* debouncedCheckFeedbacks: its pending timers (ms left)
    calls,         \* the destroy / configUpdated calls suspended at an await
    clock,         \* ms since the last instant of the model
    ev,            \* the latest event: what the last step was
    windowFired,   \* the debouncedCheckFeedbacks calls not yet delivered
    sinceFirstFire, \* ms since the first of those calls
    dirty,         \* the attributes written since a batch that covers them
    scenario       \* the heartbeat scenario's progress

vars ==
    <<config, status, oscServer, oscClient, songs, sections, store, sessions,
      gatherArgs, gatherTimers, calls, clock, ev, windowFired,
      sinceFirstFire, dirty, scenario>>

instanceVars == <<config, status, oscServer, oscClient, sessions, calls>>
storeVars == <<songs, sections, store>>
gatherVars == <<gatherArgs, gatherTimers, windowFired, sinceFirstFire>>

\* An event: its type, the session it belongs to (0 for none), the path of
\* a message, the keys of a checkFeedbacks call, the message of an error,
\* the arguments of a message.
Event(type, s, path) ==
    [type |-> type, s |-> s, path |-> path, keys |-> <<>>, error |-> "",
     args |-> <<>>]

\* ------------------------------------- utils/debounce: debounceGather
\* The keys gathered after a call with `keys`: each key not yet present
\* is appended, in order.
RECURSIVE GatherKeys(_, _)
GatherKeys(args, keys) ==
    IF keys = <<>> THEN args
    ELSE GatherKeys(IF Head(keys) \in Range(args) THEN args
                    ELSE Append(args, Head(keys)), Tail(keys))

\* A variant that re-arms the timer on every call (anchored to the last call).
GatherScheduleTrailing(timers) == {GatherDelay}

\* The pending timers after a call: the first call after an idle period
\* starts the timer, a call while the window is open leaves it alone.
GatherSchedule(timers) == IF timers = {} THEN {GatherDelay} ELSE timers

\* A variant that passes only the first gathered key on.
CheckFeedbacksArgsFirstOnly(types) == IF types = <<>> THEN <<>> ELSE <<Head(types)>>

\* (types) => this.checkFeedbacks(...types): the keys checkFeedbacks is called with.
CheckFeedbacksArgs(types) == types

\* debouncedCheckFeedbacks(...keys); `caller` is recorded for observation.
debouncedCheckFeedbacks(keys, caller) ==
    /\ gatherArgs' = GatherKeys(gatherArgs, keys)
    /\ gatherTimers' = GatherSchedule(gatherTimers)
    /\ windowFired' = Append(windowFired, [caller |-> caller, keys |-> keys])
    /\ sinceFirstFire' = IF windowFired = <<>> THEN 0 ELSE sinceFirstFire

\* A variant that keeps the gathered keys after the delivery.
GatherClearedKept(args) == args

\* The keys gathered after the timer has fired: the window is cleared.
GatherCleared(args) == <<>>

\* The gathering debounce's timer is due: the action runs with the keys
\* gathered and the window is cleared.
GatherTimeout ==
    /\ 0 \in gatherTimers
    /\ ev' = [Event("checkFeedbacks", 0, "") EXCEPT
                 !.keys = CheckFeedbacksArgs(gatherArgs)]
    /\ gatherArgs' = GatherCleared(gatherArgs)
    /\ gatherTimers' = gatherTimers \ {0}
    /\ windowFired' = <<>>
    /\ sinceFirstFire' = 0
    /\ dirty' = {a \in dirty : \E P \in Feedbacks :
                    a \in Reads(P) /\ P \notin Range(ev'.keys)}
    /\ UNCHANGED <<clock, instanceVars, storeVars>>

\* ---------------------------------------------- utils/debounce: debounce
\* A variant that schedules a new firing without cancelling the pending one.
DebounceScheduleNoCancel(timers, delay) == timers \cup {delay}

\* The pending timers after a call: the pending firing is cancelled and a
\* new one is scheduled `delay` from now.
DebounceSchedule(timers, delay) == {delay}

\* ------------------------------------------------------ the session

Config(clientHost, clientPort, serverHost) ==
    [clientHost |-> clientHost, clientPort |-> clientPort, serverHost |-> serverHost]

\* The field initialiser of this.config.
DefaultConfig == Config("127.0.0.1", "39052", "127.0.0.1")

Status(kind, cause) == [kind |-> kind, cause |-> cause]

NoHeartbeatCause == "Didn't receive a heartbeat in a while"
BadConfigCause ==
    "You must provide an IP address for AbleSet to send updates to when AbleSet isn't running on this machine, and it can't be 127.0.0.1 or localhost."

\* A session that no call of init has created yet.
NoSession ==
    [cfg |-> DefaultConfig, srv |-> "none", cli |-> "none", isConnected |-> FALSE,
     oncePlaying |-> FALSE, wd |-> {}, sent |-> <<>>, sentOnClosed |-> FALSE,
     hbArmed |-> FALSE, sinceHb |-> 0, silence |-> 0, played |-> FALSE]

SessionIds == 1..MaxSessions
Created == {s \in SessionIds : sessions[s].srv # "none"}

\* init's test of the hosts: a remote server needs a client host that is
\* neither missing nor the loopback address.
IsBadConfig(c) ==
    /\ c.serverHost # "127.0.0.1"
    /\ c.serverHost # "localhost"
    /\ (c.clientHost = "" \/ c.clientHost = "127.0.0.1" \/ c.clientHost = "localhost")

\* A variant of sendOsc that sends nothing.
sendOscNothing(ss, client, message) == ss

\* sendOsc(message): the sessions after the send.  With no client the
\* error is logged and nothing is sent.
sendOsc(ss, client, message) ==
    IF client = 0 THEN ss
    ELSE IF ss[client].cli = "open"
         THEN [ss EXCEPT ![client].sent = Append(@, message)]
         ELSE [ss EXCEPT ![client].sentOnClosed = TRUE]

\* A session that nothing refers to any more: its sockets are closed, its
\* watchdog is not pending, and this.oscServer and this.oscClient are
\* other objects.  None of its code can run again.
CollectedSession == [NoSession EXCEPT !.srv = "collected", !.cli = "collected"]

IsGarbage(sess) ==
    /\ sess.srv \in {"closed", "collected"}
    /\ sess.cli \in {"closed", "collected"}
    /\ sess.wd = {}

\* The sessions with the unreachable ones collected.
Collect(ss, server, client) ==
    [x \in SessionIds |->
        IF x # server /\ x # client /\ IsGarbage(ss[x])
        THEN CollectedSession ELSE ss[x]]

\* The body of init(c), run to its end (init awaits nothing).
InitBody(c, ss) ==
    /\ config' = c
    /\ IF IsBadConfig(c)
       THEN /\ status' = Status("BadConfig", BadConfigCause)
            /\ sessions' = ss
            /\ UNCHANGED <<oscServer, oscClient>>
       ELSE IF Number(Str(c.clientPort)).t = "NaN"
       THEN /\ status' = Status("ConnectionFailure",
                                "Client port is not valid: " \o c.clientPort)
            /\ sessions' = ss
            /\ UNCHANGED <<oscServer, oscClient>>
       ELSE LET s == Min(SessionIds \ {x \in SessionIds : ss[x].srv # "none"})
            IN  /\ status' = Status("Connecting", "")
                /\ oscServer' = s
                /\ oscClient' = s
                /\ sessions' = Collect([ss EXCEPT ![s] =
                      [NoSession EXCEPT !.cfg = c, !.srv = "binding",
                                        !.cli = "open", !.oncePlaying = TRUE]],
                                      s, s)

\* A session slot is left for a call of init.
CanInit ==
    Cardinality(Created)
      + Cardinality({k \in calls : k.kind = "configUpdated"
                                   /\ k.pc \in {"awaitClient", "awaitServer"}})
      < MaxSessions

NoDestroy == \A k \in calls : k.kind # "destroy"

\* The host calls init(c), once, on the constructed instance.
init(c) ==
    /\ status.kind = "None"
    /\ NoDestroy
    /\ InitBody(c, sessions)
    /\ calls' = calls
    /\ ev' = Event("init", 0, "")
    /\ UNCHANGED <<clock, storeVars, gatherVars, dirty>>

\* The server of session s is bound: the 'listening' handler sends the
\* subscription and the request for all values through this.oscClient and
\* arms the watchdog.
Listening(s) ==
    /\ sessions[s].srv = "binding"
    /\ LET c == sessions[s].cfg
           bound == [sessions EXCEPT ![s].srv = "listening", ![s].silence = 0]
           sub == sendOsc(bound, oscClient,
                          [path |-> "/subscribe",
                           args |-> <<Str(c.clientHost), Number(Str(c.clientPort)),
                                      Str("Companion")>>])
           got == sendOsc(sub, oscClient, [path |-> "/getValues", args |-> <<>>])
       IN  sessions' = [got EXCEPT ![s].wd = DebounceSchedule(@, HeartbeatDelay),
                                   ![s].hbArmed = TRUE, ![s].sinceHb = 0]
    /\ ev' = Event("listening", s, "")
    /\ UNCHANGED <<clock, config, status, oscServer, oscClient, calls, storeVars, gatherVars, dirty>>

\* A variant in which every recognized path re-arms the watchdog.
RearmsWatchdogAnyPath(path) == path \in RecognizedPaths

\* The paths whose handler calls handleHeartbeat().
RearmsWatchdog(path) == path = HeartbeatPath

\* A variant in which the listener of /global/isPlaying stays registered.
ConsumesOnceKeep(path) == FALSE

\* The path whose once-listener is removed when it has run.
ConsumesOnce(path) == path = "/global/isPlaying"

\* The closure of a session after its handlers for `path` have run: the
\* once-listener of /global/isPlaying and the listener of /heartbeat.
SessionAfter(sess, path) ==
    LET confirmed == \/ path = "/global/isPlaying" /\ sess.oncePlaying
                     \/ path = HeartbeatPath /\ ~sess.isConnected
        rearm == RearmsWatchdog(path)
    IN  [sess EXCEPT
            !.isConnected = IF confirmed THEN TRUE ELSE @,
            !.oncePlaying = IF ConsumesOnce(path) THEN FALSE ELSE @,
            !.wd = IF rearm THEN DebounceSchedule(@, HeartbeatDelay) ELSE @,
            !.hbArmed = IF rearm THEN TRUE ELSE @,
            !.sinceHb = IF rearm THEN 0 ELSE @,
            !.silence = IF path \in RecognizedPaths THEN 0 ELSE @,
            !.played = IF path = "/global/isPlaying" THEN TRUE ELSE @]

\* A variant in which /heartbeat never restores the status.
StatusAfterNoRecovery(sess, path) ==
    IF path = "/global/isPlaying" /\ sess.oncePlaying
    THEN Status("Ok", "")
    ELSE status

\* The status after the handlers for `path` have run.
StatusAfter(sess, path) ==
    IF \/ path = "/global/isPlaying" /\ sess.oncePlaying
       \/ path = HeartbeatPath /\ ~sess.isConnected
    THEN Status("Ok", "")
    ELSE status

\* getVariableValue(id): undefined for a variable never set.
getVariableValue(id) == IF id \in DOMAIN store THEN store[id] ELSE Undefined

\* A variant of the IsInLoop callback whose upper bound is exclusive.
IsInLoopCallbackExclusive ==
    LET pos == Number(getVariableValue("beatsPosition"))
    IN  /\ NumLe(Number(getVariableValue("loopStart")), pos)
        /\ NumLt(pos, Number(getVariableValue("loopEnd")))

\* The callback of Feedback.IsInLoop.
IsInLoopCallback ==
    LET pos == Number(getVariableValue("beatsPosition"))
    IN  /\ NumLe(Number(getVariableValue("loopStart")), pos)
        /\ NumLe(pos, Number(getVariableValue("loopEnd")))

\* A variant of isInActiveLoop that does not look at loopEnabled.
isInActiveLoopAlways ==
    LET pos == Number(getVariableValue("beatsPosition"))
    IN  /\ NumLe(Number(getVariableValue("loopStart")), pos)
        /\ NumLe(pos, Number(getVariableValue("loopEnd")))

\* isInActiveLoop(), the callback of Feedback.IsInActiveLoop.
isInActiveLoop ==
    LET pos == Number(getVariableValue("beatsPosition"))
    IN  /\ Boolean(getVariableValue("loopEnabled"))
        /\ NumLe(Number(getVariableValue("loopStart")), pos)
        /\ NumLe(pos, Number(getVariableValue("loopEnd")))

\* A variant of the CanJumpToNextSong callback that is true on the last song.
CanJumpToNextSongCallbackOnLast ==
    NumLe(Number(getVariableValue("activeSongIndex")), Num(Len(songs) - 1))

\* The callback of Feedback.CanJumpToNextSong.
CanJumpToNextSongCallback ==
    NumLt(Number(getVariableValue("activeSongIndex")), Num(Len(songs) - 1))

\* The callback of Feedback.CanJumpToPreviousSong.
CanJumpToPreviousSongCallback ==
    NumLt(Num(0), Number(getVariableValue("activeSongIndex")))

\* The callback of Feedback.CanJumpToNextSection.
CanJumpToNextSectionCallback ==
    NumLt(Number(getVariableValue("activeSectionIndex")), Num(Len(sections) - 1))

\* The callback of Feedback.CanJumpToPreviousSection.
CanJumpToPreviousSectionCallback ==
    NumLt(Num(0), Number(getVariableValue("activeSectionIndex")))

\* The callback of Feedback.IsPlaying.
IsPlayingCallback == Boolean(getVariableValue("isPlaying"))

\* Number(x) - 1
NumberMinusOne(x) == IF Number(x).t = "number" THEN Num(Number(x).n - 1) ELSE NaN

\* A variant of the IsCurrentSong callback that takes an unknown index for 0.
IsCurrentSongCallbackZero(songNumber) ==
    NumEq(Number(Coalesce(getVariableValue("activeSongIndex"), Num(0))),
          NumberMinusOne(songNumber))

\* The callback of Feedback.IsCurrentSong, given feedback.options.songNumber.
IsCurrentSongCallback(songNumber) ==
    NumEq(Number(getVariableValue("activeSongIndex")), NumberMinusOne(songNumber))

\* The callback of Feedback.IsCurrentSection, given
\* feedback.options.sectionNumber.
IsCurrentSectionCallback(sectionNumber) ==
    NumEq(Number(getVariableValue("activeSectionIndex")),
          NumberMinusOne(sectionNumber))

\* The callback of Feedback.IsQueuedSong, given feedback.options.songNumber.
IsQueuedSongCallback(songNumber) ==
    /\ getVariableValue("queuedSongIndex") # Str("")
    /\ NumEq(Number(getVariableValue("queuedSongIndex")), NumberMinusOne(songNumber))

\* The callback of Feedback.IsQueuedSection, given
\* feedback.options.sectionNumber.
IsQueuedSectionCallback(sectionNumber) ==
    /\ getVariableValue("queuedSectionIndex") # Str("")
    /\ NumEq(Number(getVariableValue("queuedSectionIndex")),
             NumberMinusOne(sectionNumber))

\* The value of feedback P's callback, given its one option.
FeedbackValue(P, option) ==
    CASE P = IsPlaying -> IsPlayingCallback
      [] P = IsInLoop -> IsInLoopCallback
      [] P = IsInActiveLoop -> isInActiveLoop
      [] P = IsCurrentSong -> IsCurrentSongCallback(option)
      [] P = IsCurrentSection -> IsCurrentSectionCallback(option)
      [] P = IsQueuedSong -> IsQueuedSongCallback(option)
      [] P = IsQueuedSection -> IsQueuedSectionCallback(option)
      [] P = CanJumpToNextSong -> CanJumpToNextSongCallback
      [] P = CanJumpToPreviousSong -> CanJumpToPreviousSongCallback
      [] P = CanJumpToNextSection -> CanJumpToNextSectionCallback
      [] P = CanJumpToPreviousSection -> CanJumpToPreviousSectionCallback

\* A variant of setVariableValues that replaces the whole store.
StoreAfterReplacing(path, args) == VariableValues(path, args)

\* A variant of setVariableValues that keeps the old value where the new
\* one is the empty string.
StoreAfterMerging(path, args) ==
    LET values == VariableValues(path, args)
    IN  [v \in DOMAIN store \cup DOMAIN values |->
            IF v \in DOMAIN values /\ ~(v \in DOMAIN store /\ values[v] = Str(""))
            THEN values[v] ELSE store[v]]

\* The store after the handler of `path` has run (setVariableValues).
StoreAfter(path, args) ==
    LET values == VariableValues(path, args)
    IN  [v \in DOMAIN store \cup DOMAIN values |->
            IF v \in DOMAIN values THEN values[v] ELSE store[v]]

\* The attributes the handler of `path` writes.
Writes(path, args) ==
    DOMAIN VariableValues(path, args)
        \cup (IF path = "/setlist/songs" THEN {"this.songs"} ELSE {})
        \cup (IF path = "/setlist/sections" THEN {"this.sections"} ELSE {})

\* The listener initOscListeners registers for `path` runs on a message
\* with these arguments (nothing runs for a path it registers none for).
OscListener(path, args) ==
    /\ store' = StoreAfter(path, args)
    /\ songs' = IF path = "/setlist/songs" THEN args ELSE songs
    /\ sections' = IF path = "/setlist/sections" THEN args ELSE sections
    /\ IF FeedbackKeys(path) # <<>>
       THEN debouncedCheckFeedbacks(FeedbackKeys(path), path)
       ELSE UNCHANGED gatherVars
    /\ dirty' = dirty \cup (Writes(path, args) \cap ReadAttributes)

\* The server of session s receives a message: every listener of its
\* path runs, in the order of registration.
Receive(s, path, args) ==
    /\ sessions[s].srv = "listening"
    /\ OscListener(path, args)
    /\ sessions' = [sessions EXCEPT ![s] = SessionAfter(@, path)]
    /\ status' = StatusAfter(sessions[s], path)
    /\ ev' = [Event("message", s, path) EXCEPT !.args = args]
    /\ UNCHANGED <<clock, config, oscServer, oscClient, calls>>

\* The errors a server emits: a failed bind, a socket error.
Errors ==
    {[message |-> "bind EADDRINUSE 127.0.0.1:39052"],
     [message |-> "recvmsg ECONNREFUSED"]}

\* A variant of the 'error' handler that reports a cause of its own.
ErrorStatusFixedCause(error) == Status("ConnectionFailure", "transport error")

\* The status the 'error' handler reports.
ErrorStatus(error) == Status("ConnectionFailure", error.message)

\* The server of session s emits an error: the 'error' handler runs.
ServerError(s, error) ==
    /\ sessions[s].srv \in {"binding", "listening"}
    /\ status' = ErrorStatus(error)
    /\ ev' = [Event("error", s, "") EXCEPT !.error = error.message]
    /\ sessions' = [sessions EXCEPT
                       ![s].srv = IF @ = "binding" THEN "failed" ELSE @]
    /\ UNCHANGED <<clock, config, oscServer, oscClient, calls, storeVars, gatherVars, dirty>>

\* The watchdog of session s is due: the action wrapped by handleHeartbeat runs.
HeartbeatTimeout(s) ==
    /\ 0 \in sessions[s].wd
    /\ status' = Status("Disconnected", NoHeartbeatCause)
    /\ sessions' = Collect([sessions EXCEPT ![s].isConnected = FALSE,
                                            ![s].wd = @ \ {0},
                                            ![s].hbArmed = FALSE,
                                            ![s].sinceHb = 0],
                            oscServer, oscClient)
    /\ ev' = Event("watchdog", s, "")
    /\ UNCHANGED <<clock, config, oscServer, oscClient, calls, storeVars, gatherVars, dirty>>

\* --------------------------------------------------------- actions

PlayPause == "playPause"
PlayStop == "playStop"
ToggleLoop == "toggleLoop"

\* The toggle actions of updateActions.
ToggleActions == {PlayPause, PlayStop, ToggleLoop}

\* A variant in which ToggleLoop looks at the position only.
ActionMessageLoopByPosition(action) ==
    CASE action = PlayPause ->
            IF Boolean(getVariableValue("isPlaying")) THEN "/global/pause"
            ELSE "/global/play"
      [] action = PlayStop ->
            IF Boolean(getVariableValue("isPlaying")) THEN "/global/stop"
            ELSE "/global/play"
      [] action = ToggleLoop ->
            IF IsInLoopCallback THEN "/setlist/escapeLoop" ELSE "/setlist/enableLoop"

\* The address of the message a toggle action's callback passes to sendOsc.
ActionMessage(action) ==
    CASE action = PlayPause ->
            IF Boolean(getVariableValue("isPlaying")) THEN "/global/pause"
            ELSE "/global/play"
      [] action = PlayStop ->
            IF Boolean(getVariableValue("isPlaying")) THEN "/global/stop"
            ELSE "/global/play"
      [] action = ToggleLoop ->
            IF isInActiveLoop THEN "/setlist/escapeLoop" ELSE "/setlist/enableLoop"

\* The user triggers a toggle action: its callback runs, while the log of
\* this.oscClient holds fewer than MaxSent messages.
ActionCallback(action) ==
    /\ status.kind # "None"
    /\ IF oscClient = 0 THEN TRUE ELSE Len(sessions[oscClient].sent) < MaxSent
    /\ sessions' = sendOsc(sessions, oscClient,
                           [path |-> ActionMessage(action), args |-> <<>>])
    /\ ev' = Event("action", oscClient, action)
    /\ UNCHANGED <<clock, config, status, oscServer, oscClient, calls, storeVars,
                   gatherVars, dirty>>

\* ------------------------------------------- destroy and configUpdated

Call(kind, c, pc, s) == [kind |-> kind, cfg |-> c, pc |-> pc, s |-> s]

\* destroy() up to its first await: the unsubscribe notification is sent
\* and the close of this.oscClient is started.  With no client the promise
\* is never resolved; the close of a client already closed throws.
DestroyStart(kind, c) ==
    LET sent == sendOsc(sessions, oscClient, [path |-> "/unsubscribe", args |-> <<>>])
    IN  IF oscClient = 0
        THEN /\ sessions' = sent
             /\ calls' = calls \cup {Call(kind, c, "hung", 0)}
        ELSE IF sessions[oscClient].cli = "open"
        THEN /\ sessions' = [sent EXCEPT ![oscClient].cli = "closing"]
             /\ calls' = calls \cup {Call(kind, c, "awaitClient", oscClient)}
        ELSE /\ sessions' = sent
             /\ calls' = calls \cup {Call(kind, c, "rejected", oscClient)}

\* The host calls destroy(): the module is deleted.
destroy ==
    /\ status.kind # "None"
    /\ NoDestroy
    /\ DestroyStart("destroy", config)
    /\ ev' = Event("destroy", 0, "")
    /\ UNCHANGED <<clock, config, status, oscServer, oscClient, storeVars, gatherVars, dirty>>

\* The host calls configUpdated(c).
configUpdated(c) ==
    /\ status.kind # "None"
    /\ NoDestroy
    /\ CanInit
    /\ config' = c
    /\ DestroyStart("configUpdated", c)
    /\ ev' = Event("configUpdated", 0, "")
    /\ UNCHANGED <<clock, status, oscServer, oscClient, storeVars, gatherVars, dirty>>

\* The client's close has completed: destroy goes on to close
\* this.oscServer and awaits that.
ClientClosed(k) ==
    /\ k \in calls
    /\ k.pc = "awaitClient"
    /\ LET closed == [sessions EXCEPT ![k.s].cli = "closed"]
       IN  IF oscServer = 0
           THEN /\ sessions' = closed
                /\ calls' = (calls \ {k}) \cup {[k EXCEPT !.pc = "hung"]}
           ELSE IF closed[oscServer].srv \in {"binding", "listening", "failed"}
           THEN /\ sessions' = [closed EXCEPT ![oscServer].srv = "closing",
                                               ![oscServer].silence = 0]
                /\ calls' = (calls \ {k})
                              \cup {[k EXCEPT !.pc = "awaitServer", !.s = oscServer]}
           ELSE /\ sessions' = closed
                /\ calls' = (calls \ {k}) \cup {[k EXCEPT !.pc = "rejected"]}
    /\ ev' = Event("clientClosed", k.s, "")
    /\ UNCHANGED <<clock, config, status, oscServer, oscClient, storeVars, gatherVars, dirty>>

\* The server's close has completed: destroy returns, and configUpdated
\* goes on to init(config) with the configuration it was called with.
ServerClosed(k) ==
    /\ k \in calls
    /\ k.pc = "awaitServer"
    /\ LET closed == [sessions EXCEPT ![k.s].srv = "closed"]
       IN  IF k.kind = "configUpdated"
           THEN /\ InitBody(k.cfg, closed)
                /\ calls' = calls \ {k}
           ELSE /\ sessions' = closed
                /\ calls' = (calls \ {k}) \cup {[k EXCEPT !.pc = "done"]}
                /\ UNCHANGED <<config, status, oscServer, oscClient>>
    /\ ev' = Event("serverClosed", k.s, "")
    /\ UNCHANGED <<clock, storeVars, gatherVars, dirty>>

\* ------------------------------------------------------------- time

AllTimers == gatherTimers \cup UNION {sessions[s].wd : s \in SessionIds}

Capped(t, limit) == IF t > limit THEN limit ELSE t

\* Time passes up to the next instant at which the model lets the peer and
\* the transport act (every `step` ms), or to the next due timer if that
\* comes first: no pending timer is passed over.
Tick(step) ==
    LET dt == Min({step - clock} \cup AllTimers)
    IN  /\ dt > 0
        /\ clock' = (clock + dt) % step
        /\ gatherTimers' = {t - dt : t \in gatherTimers}
        /\ sinceFirstFire' = IF windowFired # <<>>
                             THEN Capped(sinceFirstFire + dt, 2 * GatherDelay)
                             ELSE sinceFirstFire
        /\ sessions' = [s \in SessionIds |->
              [sessions[s] EXCEPT
                  !.wd = {t - dt : t \in @},
                  !.sinceHb = IF sessions[s].hbArmed
                              THEN Capped(@ + dt, 2 * HeartbeatDelay) ELSE @,
                  !.silence = IF sessions[s].srv = "listening"
                              THEN Capped(@ + dt, HeartbeatDelay) ELSE @]]
        /\ ev' = Event("tick", 0, "")
        /\ UNCHANGED <<config, status, oscServer, oscClient, calls, storeVars,
                       gatherArgs, windowFired, dirty>>

\* The peer and the transport act at the model's instants only.
OnGrid == clock = 0

GatherStep == GatherDelay \div TicksPerWindow
HeartbeatStep == HeartbeatDelay \div TicksPerHeartbeat

\* ------------------------------------------------- specifications

Init ==
    /\ config = DefaultConfig
    /\ status = Status("None", "")
    /\ oscServer = 0
    /\ oscClient = 0
    /\ songs = <<>>
    /\ sections = <<>>
    /\ store = [v \in {} |-> Undefined]
    /\ sessions = [s \in SessionIds |-> NoSession]
    /\ gatherArgs = <<>>
    /\ gatherTimers = {}
    /\ calls = {}
    /\ clock = 0
    /\ ev = Event("constructed", 0, "")
    /\ windowFired = <<>>
    /\ sinceFirstFire = 0
    /\ dirty = {}
    /\ scenario = 0

\* The configurations the host passes.
RemoteConfig == Config("192.168.0.2", "39052", "192.168.0.9")
NoClientHostConfig == Config("", "39052", "192.168.0.9")
BadPortConfig == Config("127.0.0.1", "port", "127.0.0.1")
EmptyPortConfig == Config("127.0.0.1", "", "127.0.0.1")
Configs == {DefaultConfig, NoClientHostConfig, BadPortConfig}

\* The configurations of the session specification.
SessionConfigs == {DefaultConfig}

\* The errors of the session specification.
SessionErrors == {[message |-> "bind EADDRINUSE 127.0.0.1:39052"]}

\* The messages the peer sends in the session specification.
SessionMessages ==
    {[path |-> HeartbeatPath, args |-> <<>>],
     [path |-> "/global/isPlaying", args |-> <<Num(1)>>],
     [path |-> "/global/tempo", args |-> <<Num(1)>>]}

\* The peer's message m arrives at session s, at an instant of the model
\* and while the window has gathered fewer than `burst` calls.
Inbound(s, m, burst) ==
    /\ OnGrid
    /\ FeedbackKeys(m.path) = <<>> \/ Len(windowFired) < burst
    /\ Receive(s, m.path, m.args)

\* The heartbeat scenario, observed: 1 after the first session's bind, 2
\* once /global/isPlaying has arrived in that state, 3 when the watchdog
\* has then fired, 4 when a /heartbeat has arrived after that; 5 once the
\* run has left the scenario.
ScenarioAfter ==
    LET e == ev'
    IN  CASE e.type \in {"tick", "checkFeedbacks"} /\ scenario # 4 -> scenario
          [] scenario = 0 ->
                IF e.type = "listening" /\ Created' = {e.s} /\ calls' = {}
                   /\ status.kind = "Connecting"
                THEN 1
                ELSE IF e.type = "init" THEN 0 ELSE 5
          [] scenario = 1 /\ e.type = "message" ->
                IF e.path = "/global/isPlaying" THEN 2
                ELSE IF e.path = HeartbeatPath THEN 5 ELSE 1
          [] scenario = 2 /\ e.type = "message" -> 2
          [] scenario = 2 /\ e.type = "watchdog" -> 3
          [] scenario = 3 /\ e.type = "message" ->
                IF e.path = HeartbeatPath THEN 4
                ELSE IF e.path = "/global/isPlaying" THEN 5 ELSE 3
          [] OTHER -> 5

SessionStep ==
    \/ \E c \in SessionConfigs : init(c)
    \/ \E c \in SessionConfigs : configUpdated(c)
    \/ destroy
    \/ \E k \in calls : ClientClosed(k)
    \/ \E k \in calls : ServerClosed(k)
    \/ \E s \in SessionIds : OnGrid /\ Listening(s)
    \/ \E s \in SessionIds, error \in SessionErrors :
          OnGrid /\ ServerError(s, error)
    \/ \E s \in SessionIds, m \in SessionMessages : Inbound(s, m, SessionBurst)
    \/ \E s \in SessionIds : HeartbeatTimeout(s)
    \/ GatherTimeout
    \/ Tick(HeartbeatStep)

Next == SessionStep /\ scenario' = ScenarioAfter

Spec == Init /\ [][Next]_vars

\* ---- the gathering debounce on its own: debouncedCheckFeedbacks is
\* called with the key lists the handlers pass.

FiredKeyLists == {FeedbackKeys(path) : path \in ListenerPaths} \ {<<>>}

Fire(keys) ==
    /\ OnGrid
    /\ Len(windowFired) < MaxBurst
    /\ debouncedCheckFeedbacks(keys, "")
    /\ ev' = Event("fire", 0, "")
    /\ UNCHANGED <<clock, instanceVars, storeVars, dirty>>

NextGather ==
    /\ \/ \E keys \in FiredKeyLists : Fire(keys)
       \/ GatherTimeout
       \/ Tick(GatherStep)
    /\ UNCHANGED scenario

SpecGather == Init /\ [][NextGather]_vars

\* ---- the listeners of initOscListeners on their own: a server emits
\* messages to them.

Emit(m, burst) ==
    /\ OnGrid
    /\ FeedbackKeys(m.path) = <<>> \/ Len(windowFired) < burst
    /\ OscListener(m.path, m.args)
    /\ ev' = [Event("message", 0, m.path) EXCEPT !.args = m.args]
    /\ UNCHANGED <<clock, instanceVars>>

\* The position and loop messages of the batching scenario.
BatchMessages ==
    {[path |-> "/global/beatsPosition", args |-> <<Num(n)>>] : n \in 1..3}
      \cup {[path |-> "/setlist/loopStart", args |-> <<Num(4)>>],
            [path |-> "/setlist/loopEnd", args |-> <<Num(8)>>],
            [path |-> "/global/isPlaying", args |-> <<Num(1)>>]}

NextBatch ==
    /\ \/ \E m \in BatchMessages : Emit(m, MaxBurst)
       \/ GatherTimeout
       \/ Tick(GatherStep)
    /\ UNCHANGED scenario

SpecBatch == Init /\ [][NextBatch]_vars

\* One message for every path whose handler writes an attribute that a
\* feedback reads, and one for a path whose handler writes none.
InvalidateMessages ==
    {[path |-> "/global/beatsPosition", args |-> <<Num(1)>>],
     [path |-> "/global/isPlaying", args |-> <<Num(1)>>],
     [path |-> "/setlist/songs", args |-> <<Str("A"), Str("B")>>],
     [path |-> "/setlist/sections", args |-> <<Str("Intro")>>],
     [path |-> "/setlist/activeSongIndex", args |-> <<Num(1)>>],
     [path |-> "/setlist/activeSectionIndex", args |-> <<Num(0)>>],
     [path |-> "/setlist/queuedIndex", args |-> <<Num(1), Num(0)>>],
     [path |-> "/setlist/loopEnabled", args |-> <<Num(1)>>],
     [path |-> "/setlist/loopStart", args |-> <<Num(4)>>],
     [path |-> "/setlist/loopEnd", args |-> <<Num(8)>>],
     [path |-> "/global/tempo", args |-> <<Num(1)>>]}

\* The variables each message sets.
Sets == [m \in InvalidateMessages |-> DOMAIN VariableValues(m.path, m.args)]

\* The messages the store already holds the values of.
Received == {m \in InvalidateMessages : Sets[m] \subseteq DOMAIN store}

\* The peer sends m: one of the paths it has sent before, or a further one.
Update(m) ==
    /\ m \in Received \/ Cardinality(Received) < MaxPaths
    /\ Emit(m, SessionBurst)

NextInvalidate ==
    /\ \/ \E m \in InvalidateMessages : Update(m)
       \/ GatherTimeout
       \/ Tick(GatherStep)
    /\ UNCHANGED scenario

SpecInvalidate == Init /\ [][NextInvalidate]_vars

\* ---- init, configUpdated and destroy with every kind of configuration,
\* with a peer that sends heartbeats only.

ConfigMessages == {[path |-> HeartbeatPath, args |-> <<>>]}

NextConfig ==
    /\ \/ \E c \in Configs : init(c)
       \/ \E c \in Configs : configUpdated(c)
       \/ destroy
       \/ \E k \in calls : ClientClosed(k)
       \/ \E k \in calls : ServerClosed(k)
       \/ \E s \in SessionIds : OnGrid /\ Listening(s)
       \/ \E s \in SessionIds, error \in Errors :
             OnGrid /\ ServerError(s, error)
       \/ \E s \in SessionIds, m \in ConfigMessages : Inbound(s, m, SessionBurst)
       \/ \E s \in SessionIds : HeartbeatTimeout(s)
       \/ Tick(HeartbeatStep)
    /\ UNCHANGED scenario

SpecConfig == Init /\ [][NextConfig]_vars

\* ---- init and configUpdated with valid and invalid configurations,
\* with a silent peer and no teardown of the module.

InitConfigs == Configs \cup {EmptyPortConfig}

NextInit ==
    /\ \/ \E c \in InitConfigs : init(c)
       \/ \E c \in InitConfigs : configUpdated(c)
       \/ \E k \in calls : ClientClosed(k)
       \/ \E k \in calls : ServerClosed(k)
       \/ \E s \in SessionIds : OnGrid /\ Listening(s)
       \/ \E s \in SessionIds : HeartbeatTimeout(s)
       \/ Tick(HeartbeatStep)
    /\ UNCHANGED scenario

SpecInit == Init /\ [][NextInit]_vars

\* ---- the loop feedbacks: the peer reports positions, loop bounds
\* (also equal and inverted ones) and the loop switch, with and without an
\* argument.

LoopMessages ==
    {[path |-> "/global/beatsPosition", args |-> <<Num(n)>>] : n \in {3, 4, 8, 9}}
      \cup {[path |-> "/setlist/loopStart", args |-> <<Num(n)>>] : n \in {4, 8}}
      \cup {[path |-> "/setlist/loopEnd", args |-> <<Num(n)>>] : n \in {4, 8}}
      \cup {[path |-> "/setlist/loopEnabled", args |-> <<Num(n)>>] : n \in {0, 1}}
      \cup {[path |-> "/global/beatsPosition", args |-> <<>>]}

NextLoop ==
    /\ \/ \E m \in LoopMessages : Emit(m, SessionBurst)
       \/ GatherTimeout
       \/ Tick(GatherStep)
    /\ UNCHANGED scenario

SpecLoop == Init /\ [][NextLoop]_vars

\* ---- the setlist: the peer reports lists of songs and of sections
\* (longer, shorter and empty ones) and the active indices, with and
\* without an argument.

SetlistMessages ==
    {[path |-> "/setlist/songs", args |-> a] :
        a \in {<<>>, <<Str("A"), Str("B")>>, <<Str("X")>>}}
      \cup {[path |-> "/setlist/sections", args |-> a] :
                a \in {<<>>, <<Str("Intro"), Str("Verse")>>}}
      \cup {[path |-> "/setlist/activeSongIndex", args |-> <<Num(n)>>] :
                n \in {-1, 0, 1}}
      \cup {[path |-> "/setlist/activeSectionIndex", args |-> <<Num(0)>>],
            [path |-> "/setlist/activeSongIndex", args |-> <<>>],
            [path |-> "/setlist/activeSectionIndex", args |-> <<>>]}

NextSetlist ==
    /\ \/ \E m \in SetlistMessages : Emit(m, SessionBurst)
       \/ GatherTimeout
       \/ Tick(GatherStep)
    /\ UNCHANGED scenario

SpecSetlist == Init /\ [][NextSetlist]_vars

\* ---- one session and a peer that also sends messages on a path no
\* handler is registered for.

FrameMessages ==
    {[path |-> HeartbeatPath, args |-> <<>>],
     [path |-> "/unknown", args |-> <<Num(1)>>],
     [path |-> "/global/isPlaying", args |-> <<Num(1)>>],
     [path |-> "/global/tempo", args |-> <<Num(1)>>],
     [path |-> "/setlist/songs", args |-> <<Str("A")>>],
     [path |-> "/setlist/queuedIndex", args |-> <<Num(1), Num(0)>>]}

NextFrame ==
    /\ \/ init(DefaultConfig)
       \/ \E s \in SessionIds : OnGrid /\ Listening(s)
       \/ \E s \in SessionIds, m \in FrameMessages : Inbound(s, m, SessionBurst)
       \/ \E s \in SessionIds : HeartbeatTimeout(s)
       \/ GatherTimeout
       \/ Tick(HeartbeatStep)
    /\ UNCHANGED scenario

SpecFrame == Init /\ [][NextFrame]_vars

\* ---- one session whose peer reports the transport and the loop, and a
\* user who triggers the toggle actions.

ActionMessages ==
    {[path |-> "/global/isPlaying", args |-> <<Num(n)>>] : n \in {0, 1}}
      \cup {[path |-> "/setlist/loopEnabled", args |-> <<Num(1)>>],
            [path |-> "/setlist/loopStart", args |-> <<Num(4)>>],
            [path |-> "/setlist/loopEnd", args |-> <<Num(8)>>],
            [path |-> "/global/beatsPosition", args |-> <<Num(4)>>]}

NextAction ==
    /\ \/ init(DefaultConfig)
       \/ \E s \in SessionIds : OnGrid /\ Listening(s)
       \/ \E s \in SessionIds, m \in ActionMessages : Inbound(s, m, SessionBurst)
       \/ \E action \in ToggleActions : OnGrid /\ ActionCallback(action)
       \/ \E s \in SessionIds : HeartbeatTimeout(s)
       \/ GatherTimeout
       \/ Tick(HeartbeatStep)
    /\ UNCHANGED scenario

SpecAction == Init /\ [][NextAction]_vars

\* ---- init, configUpdated and destroy with every kind of configuration,
\* and a user who triggers actions before, during and after a teardown.

NextTeardown ==
    /\ \/ \E c \in Configs : init(c)
       \/ \E c \in Configs : configUpdated(c)
       \/ destroy
       \/ \E k \in calls : ClientClosed(k)
       \/ \E k \in calls : ServerClosed(k)
       \/ \E s \in SessionIds : Listening(s)
       \/ \E action \in ToggleActions : ActionCallback(action)
    /\ UNCHANGED scenario

SpecTeardown == Init /\ [][NextTeardown]_vars

\* ---- configUpdated called again while an earlier call is suspended at
\* an await of its destroy: reconfigurations one after the other, then one
\* overlap.

\* The host calls configUpdated(c) while an earlier call is suspended.
configUpdatedOverlapping(c) ==
    /\ \E k \in calls : k.kind = "configUpdated"
                          /\ k.pc \in {"awaitClient", "awaitServer"}
    /\ \A k \in calls : k.pc # "rejected"
    /\ config' = c
    /\ DestroyStart("configUpdated", c)
    /\ ev' = Event("configUpdated", 0, "")
    /\ UNCHANGED <<clock, status, oscServer, oscClient, storeVars, gatherVars, dirty>>

\* The valid configurations the host passes.
ValidConfigs == {DefaultConfig, RemoteConfig}

NextOverlap ==
    /\ \/ \E c \in ValidConfigs : init(c)
       \/ \E c \in ValidConfigs : calls = {} /\ configUpdated(c)
       \/ \E c \in ValidConfigs : configUpdatedOverlapping(c)
       \/ \E k \in calls : ClientClosed(k)
       \/ \E k \in calls : ServerClosed(k)
       \/ \E s \in SessionIds : Listening(s)
    /\ UNCHANGED scenario

SpecOverlap == Init /\ [][NextOverlap]_vars

\* ------------------------------------------------------------ claims

\* The keys of the calls gathered in the window, in the order passed.
RECURSIVE FiredKeys(_)
FiredKeys(fired) ==
    IF fired = <<>> THEN <<>> ELSE Head(fired).keys \o FiredKeys(Tail(fired))

\* batch lists every key of `fired` once, in the order of first occurrence.
IsOrderedUnique(batch, fired) ==
    /\ Range(batch) = Range(fired)
    /\ SeqNoDup(batch)
    /\ \A i, j \in DOMAIN batch :
          i < j => FirstIndex(fired, batch[i]) < FirstIndex(fired, batch[j])

\* C1: whatever key lists are passed to debouncedCheckFeedbacks within one
\* window, a delivery is pending while any call is undelivered, and every
\* checkFeedbacks call delivers a window that holds at least one call, with
\* every distinct key of the window's calls once, in order of first
\* occurrence.
C1_GatherDeliversEachKeyOnce ==
    /\ [](windowFired # <<>> => Cardinality(gatherTimers) = 1)
    /\ [][ev'.type = "checkFeedbacks" =>
            /\ windowFired # <<>>
            /\ IsOrderedUnique(ev'.keys, FiredKeys(windowFired))
            /\ gatherTimers' = {}]_vars

\* A batch of three keys was delivered whose last key was passed in a call
\* that repeated the first two.
C1_Witness ==
    /\ ev.type = "checkFeedbacks"
    /\ ev.keys = <<CanJumpToNextSong, CanJumpToPreviousSong, IsCurrentSong>>

\* C2: the window's timer runs from its first call: while calls are
\* undelivered the one pending timer is due GatherDelay after the first
\* of them, whatever calls followed, and the delivery happens then.
C2_GatherAnchoredToFirstCall ==
    /\ [](windowFired # <<>> => gatherTimers = {GatherDelay - sinceFirstFire})
    /\ [][ev'.type = "checkFeedbacks" => sinceFirstFire = GatherDelay]_vars

\* A call made in the middle of an open window has left the timer alone.
C2_Witness ==
    /\ ev.type = "fire"
    /\ Len(windowFired) >= 2
    /\ sinceFirstFire > 0
    /\ sinceFirstFire < GatherDelay
    /\ gatherTimers = {GatherDelay - sinceFirstFire}

\* The session this.oscServer belongs to is bound.
Bound == oscServer # 0 /\ sessions[oscServer].srv = "listening"

\* C3: the watchdog of a session is one timer, due HeartbeatDelay after
\* the last call of handleHeartbeat: a call made while it is pending
\* replaces it, so it runs once, HeartbeatDelay after the last call of a
\* run of calls less than HeartbeatDelay apart, and never earlier.
C3_WatchdogRunsOnceAfterLastCall ==
    /\ [](\A s \in SessionIds :
            /\ sessions[s].hbArmed => sessions[s].wd = {HeartbeatDelay - sessions[s].sinceHb}
            /\ ~sessions[s].hbArmed => sessions[s].wd = {})
    /\ [][ev'.type = "watchdog" =>
            /\ sessions[ev'.s].hbArmed
            /\ sessions[ev'.s].sinceHb = HeartbeatDelay
            /\ sessions'[ev'.s].wd = {}]_vars

\* A /heartbeat has re-armed the watchdog of a confirmed session in which
\* no watchdog has fired yet: the timer it replaced was still pending.
C3_Witness ==
    /\ scenario = 2
    /\ ev.type = "message"
    /\ ev.path = HeartbeatPath
    /\ sessions[ev.s].wd = {HeartbeatDelay}
    /\ clock = 0

\* C4: in the heartbeat scenario the session is listening with the
\* watchdog armed after the bind; the status is Ok once /global/isPlaying
\* has arrived, and the watchdog is then due within HeartbeatDelay of the
\* last inbound message; when it has fired the status is Disconnected with
\* the no-heartbeat cause; one /heartbeat later the status is Ok again, in
\* the same session and with no call of destroy, configUpdated or init.
C4_HeartbeatScenario ==
    /\ scenario \in 1..4 =>
          /\ Bound
          /\ Created = {oscServer}
          /\ calls = {}
    /\ scenario = 1 =>
          /\ status.kind = "Connecting"
          /\ sessions[oscServer].wd # {}
    /\ scenario = 2 =>
          /\ status = Status("Ok", "")
          /\ \E t \in sessions[oscServer].wd :
                t <= HeartbeatDelay - sessions[oscServer].silence
    /\ scenario = 3 => status = Status("Disconnected", NoHeartbeatCause)
    /\ scenario = 4 => status = Status("Ok", "")

\* The scenario has run to its end.
C4_Witness == scenario = 4 /\ ev.type = "message" /\ ev.path = HeartbeatPath

C7_OkHasPendingWatchdog ==
    status.kind = "Ok" /\ Bound =>
        \E t \in sessions[oscServer].wd :
            t <= HeartbeatDelay - sessions[oscServer].silence

\* The feedbacks whose callback reads attribute a.
Readers(a) == {P \in Feedbacks : a \in Reads(P)}

\* C8: while an attribute has been updated and not yet been followed by a
\* batch, every feedback that reads it is among the gathered keys and the
\* delivery is pending; the batch delivered next holds all those
\* feedbacks, and the store it is delivered on holds the updates (the
\* handler writes the store before it calls debouncedCheckFeedbacks).
C8_NoInvalidationMissed ==
    /\ [](\A a \in dirty :
             /\ Readers(a) \subseteq Range(gatherArgs)
             /\ gatherTimers # {})
    /\ [][ev'.type = "checkFeedbacks" =>
             /\ \A a \in dirty : Readers(a) \subseteq Range(ev'.keys)
             /\ dirty' = {}
             /\ UNCHANGED storeVars]_vars

\* A batch has been delivered after updates of the list of songs and of
\* the active song's index, on a store that holds them.
C8_Witness ==
    /\ ev.type = "checkFeedbacks"
    /\ {IsCurrentSong, CanJumpToNextSong, CanJumpToPreviousSong}
          \subseteq Range(ev.keys)
    /\ songs # <<>>
    /\ "activeSongIndex" \in DOMAIN store
    /\ dirty = {}

\* The handlers that have called debouncedCheckFeedbacks in the window.
RECURSIVE Callers(_)
Callers(fired) ==
    IF fired = <<>> THEN <<>> ELSE <<Head(fired).caller>> \o Callers(Tail(fired))

\* Three updates of the position and then one of a loop bound.
IsPositionBurst(callers) ==
    /\ Len(callers) = 4
    /\ \A i \in 1..3 : callers[i] = "/global/beatsPosition"
    /\ callers[4] \in {"/setlist/loopStart", "/setlist/loopEnd"}

\* C9: when three /global/beatsPosition updates and then one loop-bound
\* update have arrived in one window, one delivery is pending, and the
\* checkFeedbacks call that ends the window lists IsInLoop and
\* IsInActiveLoop once each.
C9_PositionBurstOneBatch ==
    /\ [](IsPositionBurst(Callers(windowFired)) =>
             /\ Cardinality(gatherTimers) = 1
             /\ sinceFirstFire < GatherDelay \/ 0 \in gatherTimers)
    /\ [][ev'.type = "checkFeedbacks" /\ IsPositionBurst(Callers(windowFired))
          => /\ ev'.keys = <<IsInLoop, IsInActiveLoop>>
             /\ gatherTimers' = {}
             /\ windowFired' = <<>>]_vars

\* Such a window is about to be delivered: the position is 3, a loop
\* bound is in the store, and the two keys are gathered once each.
C9_Witness ==
    /\ IsPositionBurst(Callers(windowFired))
    /\ gatherTimers = {0}
    /\ gatherArgs = <<IsInLoop, IsInActiveLoop>>
    /\ "beatsPosition" \in DOMAIN store
    /\ store["beatsPosition"] = Num(3)
    /\ "loopStart" \in DOMAIN store

\* C10: the watchdog of a session other than the one this.oscServer
\* belongs to never changes the status.
C10_StaleWatchdogNeverFires ==
    [][ev'.type = "watchdog" /\ ev'.s # oscServer => status' = status]_vars

\* destroy() has returned.
Destroyed == \E k \in calls : k.kind = "destroy" /\ k.pc = "done"

\* C11: once destroy has completed, a watchdog that fires leaves the status
\* as it is and no window of the gathering debounce is delivered to
\* checkFeedbacks.
C11_TimersAfterDestroyAreNoOps ==
    [][Destroyed =>
         /\ ev'.type = "watchdog" => status' = status
         /\ ev'.type # "checkFeedbacks"]_vars

\* C12: no call of destroy or configUpdated is left suspended on a close
\* that never completes, or ended by a close that throws: each one goes
\* on to its end, and configUpdated to init with the new configuration.
C12_TeardownAlwaysCompletes ==
    \A k \in calls : k.pc \notin {"hung", "rejected"}

\* The /unsubscribe messages among those sent.
Unsubscribes(sent) == SelectSeq(sent, LAMBDA m : m.path = "/unsubscribe")

\* C13: teardown sends /unsubscribe through the open client and starts
\* the client's close in the same step, with the server still untouched;
\* a server is only closing or closed when its client is closed and one
\* /unsubscribe, the last message sent, went out through it; and when
\* destroy has returned both this.oscClient and this.oscServer are closed.
C13_TeardownOrder ==
    /\ [][ev'.type \in {"destroy", "configUpdated"}
          /\ oscClient # 0 /\ sessions[oscClient].cli = "open"
          => /\ sessions'[oscClient].sent =
                   Append(sessions[oscClient].sent,
                          [path |-> "/unsubscribe", args |-> <<>>])
             /\ sessions'[oscClient].cli = "closing"
             /\ sessions'[oscServer].srv = sessions[oscServer].srv
             /\ sessions[oscServer].srv \notin {"closing", "closed"}]_vars
    /\ [](\A s \in SessionIds :
            sessions[s].srv \in {"closing", "closed"} =>
               /\ sessions[s].cli = "closed"
               /\ Len(Unsubscribes(sessions[s].sent)) = 1
               /\ sessions[s].sent[Len(sessions[s].sent)].path = "/unsubscribe")
    /\ [](Destroyed =>
            /\ sessions[oscClient].cli = "closed"
            /\ sessions[oscServer].srv = "closed")

\* destroy has returned from the teardown of a bound session: the
\* subscription, the request for the values and then one /unsubscribe
\* were sent.
C13_Witness ==
    /\ Destroyed
    /\ Len(sessions[oscClient].sent) = 3
    /\ sessions[oscClient].sent[1].path = "/subscribe"
    /\ sessions[oscClient].sent[3].path = "/unsubscribe"
    /\ sessions[oscServer].srv = "closed"

\* C14: a transport error, in whatever connection state it occurs, at once
\* sets the status to ConnectionFailure with the error's message as cause.
C14_ErrorSetsConnectionFailure ==
    [][ev'.type = "error" =>
         /\ ev'.error \in {e.message : e \in Errors}
         /\ status' = Status("ConnectionFailure", ev'.error)]_vars

\* A socket error has been reported on the current session after a
\* /heartbeat had confirmed it.
C14_Witness ==
    /\ ev.type = "error"
    /\ ev.s = oscServer
    /\ status = Status("ConnectionFailure", "recvmsg ECONNREFUSED")
    /\ sessions[ev.s].srv = "listening"
    /\ sessions[ev.s].isConnected

\* C15: a transport error is fatal to its session: the next message or
\* watchdog timer of the session that reported the error leaves the
\* status as the error set it.
C15_ErrorIsFatal ==
    [][/\ ev.type = "error"
       /\ ev'.type \in {"message", "watchdog"}
       /\ ev'.s = ev.s
       => status' = status]_vars

\* The body of init runs in this step: by init itself, or by configUpdated
\* once its destroy has completed.
InitRuns ==
    \/ ev'.type = "init"
    \/ /\ ev'.type = "serverClosed"
       /\ \E k \in calls \ calls' : k.kind = "configUpdated"

\* The client port spells a number.
IsNumeral(str) == \E d \in Digits : ToString(d) = str

\* An invalid configuration: a client port that is not a number, or a
\* remote server host with a missing or loopback client host.
IsInvalidConfig(c) == IsBadConfig(c) \/ ~IsNumeral(c.clientPort)

\* C16: init with an invalid configuration creates and binds no endpoint,
\* sends nothing and reports the configuration-error status with a cause.
C16_InvalidConfigBlocks ==
    [][InitRuns /\ IsInvalidConfig(config') =>
         /\ status'.kind = "BadConfig"
         /\ status'.cause # ""
         /\ oscServer' = oscServer
         /\ oscClient' = oscClient
         /\ \A s \in SessionIds :
               /\ sessions'[s].srv = "binding" => sessions[s].srv = "binding"
               /\ sessions'[s].cli = "open" => sessions[s].cli = "open"
               /\ Len(sessions'[s].sent) <= Len(sessions[s].sent)]_vars

\* The messages of a log that the 'listening' handler sends.
BindMessages(sent) ==
    SelectSeq(sent, LAMBDA m : m.path \in {"/subscribe", "/getValues"})

\* C17: every bind of a session's server is followed at once by
\* /subscribe with the client host, the client port and 'Companion', then
\* /getValues, and arms the watchdog; neither is sent before the bind.
C17_BindSubscribes ==
    [][ev'.type = "listening" =>
         LET s == ev'.s
             c == sessions[s].cfg
         IN  /\ BindMessages(sessions[s].sent) = <<>>
             /\ sessions'[s].sent = sessions[s].sent \o
                   <<[path |-> "/subscribe",
                      args |-> <<Str(c.clientHost), Num(39052), Str("Companion")>>],
                     [path |-> "/getValues", args |-> <<>>]>>
             /\ sessions'[s].wd = {HeartbeatDelay}]_vars

\* C18: the delivery clears the window: it leaves no key gathered and no
\* timer pending, a batch holds only keys passed since the delivery before
\* it, and the first call after a delivery gathers its own keys only and
\* starts a timer of its own, due GatherDelay later.
C18_DeliveryClearsWindow ==
    /\ [][ev'.type = "checkFeedbacks" =>
            /\ gatherArgs' = <<>>
            /\ gatherTimers' = {}
            /\ Range(ev'.keys) \subseteq Range(FiredKeys(windowFired))]_vars
    /\ [][ev'.type = "fire" /\ windowFired = <<>> =>
            /\ gatherTimers = {}
            /\ gatherTimers' = {GatherDelay}
            /\ Range(gatherArgs') = Range(windowFired'[1].keys)]_vars

\* A batch has just been delivered and the window is empty.
C18_Witness ==
    /\ ev.type = "checkFeedbacks"
    /\ ev.keys = <<IsInLoop, IsInActiveLoop>>
    /\ gatherArgs = <<>>
    /\ gatherTimers = {}
    /\ windowFired = <<>>

\* The position lies within the loop, both ends included: the three
\* values are numbers and loopStart <= beatsPosition <= loopEnd.
WithinLoop ==
    /\ {"beatsPosition", "loopStart", "loopEnd"} \subseteq DOMAIN store
    /\ \A v \in {"beatsPosition", "loopStart", "loopEnd"} : store[v].t = "number"
    /\ store["loopStart"].n <= store["beatsPosition"].n
    /\ store["beatsPosition"].n <= store["loopEnd"].n

\* C19: IsInLoop is true exactly when loopStart <= beatsPosition <= loopEnd,
\* both bounds included, and a change of loopEnabled does not change it.
C19_IsInLoopInclusive ==
    /\ [](IsInLoopCallback <=> WithinLoop)
    /\ [][ev'.type = "message" /\ ev'.path = "/setlist/loopEnabled" =>
            IsInLoopCallback' = IsInLoopCallback]_vars

\* The position is on the loop's end, the loop is switched off and
\* IsInLoop is true.
C19_Witness ==
    /\ getVariableValue("loopStart") = Num(4)
    /\ getVariableValue("loopEnd") = Num(8)
    /\ getVariableValue("beatsPosition") = Num(8)
    /\ getVariableValue("loopEnabled") = Bool(FALSE)
    /\ IsInLoopCallback

\* loopEnabled as mirrored: true once /setlist/loopEnabled has set it so.
LoopEnabled == getVariableValue("loopEnabled") = Bool(TRUE)

\* C20: in every store state IsInActiveLoop is loopEnabled AND IsInLoop:
\* false while loopEnabled is false or unset, never true while IsInLoop
\* is false.
C20_IsInActiveLoopIsEnabledAndInLoop ==
    /\ isInActiveLoop <=> (LoopEnabled /\ IsInLoopCallback)
    /\ ~LoopEnabled => ~isInActiveLoop
    /\ ~IsInLoopCallback => ~isInActiveLoop

\* The position is within the loop and the loop has been switched off:
\* IsInLoop is true and IsInActiveLoop is false.
C20_Witness ==
    /\ getVariableValue("loopEnabled") = Bool(FALSE)
    /\ getVariableValue("beatsPosition") = Num(4)
    /\ IsInLoopCallback
    /\ ~isInActiveLoop

\* The active song's index as mirrored, when it is a number.
ActiveSongIsNumber == getVariableValue("activeSongIndex").t = "number"

OptionValues == {Num(0), Num(1), Num(2), Str("1"), Undefined}

\* The variables feedback P reads that have never been set.
UnknownReads(P) == {a \in Reads(P) \cap VariableIds : a \notin DOMAIN store}

NameAt(list, i) == Str(IF i <= Len(list) THEN list[i].s ELSE "")

\* The variables song<i>Name (section<i>Name) show the list.
Shows(name, list) ==
    \A i \in 1..PRESET_COUNT : getVariableValue(name[i - 1]) = NameAt(list, i)

\* C23: this.songs (this.sections) is the list of the latest /setlist/songs
\* (/setlist/sections) message and song<i>Name (section<i>Name), for i from
\* 1 to 32, is its i-th element or the empty string beyond its end; no
\* other message changes them.
C23_ListsReplacedWholesale ==
    /\ [][ev'.type = "message" =>
            /\ songs' = IF ev'.path = "/setlist/songs" THEN ev'.args ELSE songs
            /\ sections' = IF ev'.path = "/setlist/sections" THEN ev'.args
                           ELSE sections]_vars
    /\ [](/\ songName[0] \in DOMAIN store => Shows(songName, songs)
          /\ sectionName[0] \in DOMAIN store => Shows(sectionName, sections))

\* Two lists of songs have arrived one after the other; the second has one
\* song, and song2Name is empty.
C23_Witness ==
    /\ Len(windowFired) = 2
    /\ \A i \in 1..2 : windowFired[i].caller = "/setlist/songs"
    /\ songs = <<Str("X")>>
    /\ getVariableValue("song1Name") = Str("X")
    /\ getVariableValue("song2Name") = Str("")
    /\ sections = <<Str("Intro"), Str("Verse")>>
    /\ getVariableValue("section2Name") = Str("Verse")

\* C24: when configUpdated has destroyed the session and runs init, every
\* mirrored attribute is unknown again and the lists are empty, so that all
\* feedbacks are false until the new session's first message.
C24_ReinitResetsStore ==
    [][/\ ev'.type = "serverClosed"
       /\ \E k \in calls \ calls' : k.kind = "configUpdated"
       => /\ DOMAIN store' = {}
          /\ songs' = <<>>
          /\ sections' = <<>>
          /\ ~IsPlayingCallback']_vars

\* The paths whose handler stores Number(argument).
NumericPaths ==
    {"/global/beatsPosition", "/global/tempo", "/setlist/activeSongIndex",
     "/setlist/activeSectionIndex", "/setlist/queuedIndex",
     "/setlist/nextSongIndex", "/setlist/loopStart", "/setlist/loopEnd",
     "/playaudio12/scene", "/settings/countInDuration"}

\* C25: a message on a numeric path that carries no argument stores 0 for
\* the path's variables, and no stored value is undefined or not a number.
C25_AbsentNumberStoresZero ==
    [][ev'.type = "message" /\ ev'.path \in NumericPaths /\ ev'.args = <<>> =>
         /\ \A v \in DOMAIN VariableValues(ev'.path, ev'.args) : store'[v] = Num(0)
         /\ \A v \in DOMAIN store' : store'[v].t \notin {"NaN", "undefined"}]_vars

ToggleMessage(action) ==
    CASE action = PlayPause ->
            IF getVariableValue("isPlaying") = Bool(TRUE) THEN "/global/pause"
            ELSE "/global/play"
      [] action = PlayStop ->
            IF getVariableValue("isPlaying") = Bool(TRUE) THEN "/global/stop"
            ELSE "/global/play"
      [] action = ToggleLoop ->
            IF LoopEnabled /\ WithinLoop THEN "/setlist/escapeLoop"
            ELSE "/setlist/enableLoop"

\* C27: a toggle action sends one message, chosen from the mirrored state
\* when it runs (pause or stop while playing, else play; escapeLoop while
\* in an active loop, else enableLoop), and leaves the store as it is.
C27_ToggleSendsOneMessage ==
    [][ev'.type = "action" =>
         /\ oscClient # 0
         /\ sessions' = [sessions EXCEPT ![oscClient].sent =
               Append(@, [path |-> ToggleMessage(ev'.path), args |-> <<>>])]
         /\ UNCHANGED <<store, songs, sections, status>>]_vars

\* ToggleLoop has run in an active loop and has sent /setlist/escapeLoop.
C27_Witness ==
    /\ ev.type = "action"
    /\ ev.path = ToggleLoop
    /\ isInActiveLoop
    /\ sessions[oscClient].sent[Len(sessions[oscClient].sent)].path
         = "/setlist/escapeLoop"

\* C28: an action triggered after destroy has returned, or while the
\* status is BadConfig after a configUpdated, finds no client and sends
\* nothing: sendOsc never sends on a client that has been closed.
C28_NoSendOnClosedClient ==
    [][/\ ev'.type = "action"
       /\ Destroyed \/ (status.kind = "BadConfig" /\ calls = {})
       => /\ oscClient = 0
          /\ \A s \in SessionIds :
                sessions'[s].sentOnClosed = sessions[s].sentOnClosed]_vars

\* The sessions with an endpoint that is not closed.
OpenSessions ==
    {s \in SessionIds : \/ sessions[s].srv \in {"binding", "listening"}
                        \/ sessions[s].cli = "open"}

\* Two configUpdated calls have overlapped and both have settled: the
\* earlier one has run its init, the later one is the call left in `calls`.
OverlapSettled == calls # {} /\ \A k \in calls : k.pc = "rejected"

\* C29: once two overlapping configUpdated calls have both completed there
\* is one open server and one open client, this.oscServer and
\* this.oscClient refer to them, and they were created from the
\* configuration of the later call.
C29_OverlapEndsInLatestConfig ==
    OverlapSettled =>
        /\ oscServer # 0
        /\ oscClient = oscServer
        /\ OpenSessions = {oscServer}
        /\ sessions[oscServer].srv \in {"binding", "listening"}
        /\ sessions[oscServer].cli = "open"
        /\ \A k \in calls : sessions[oscServer].cfg = k.cfg /\ config = k.cfg

====
